---- MODULE Spec2Model ----
(***************************************************************************)
(* The crawl engine of shoppin-crawler: BaseCrawler.start, processQueue,   *)
(* processUrl, processLinks, handleCrawlError and the URL helpers of       *)
(* url-utils.ts.                                                           *)
(*                                                                         *)
(* A URL string is a sequence of tokens: an origin token (scheme and       *)
(* host), "/" separators and path segments.  Upper-case variants of a      *)
(* token are distinct tokens, so lower-casing, host canonicalisation and   *)
(* the removal of one trailing slash are real conversions.                 *)
(***************************************************************************)
EXTENDS Integers, Sequences, FiniteSets, TLC

\* ------------------------------------------------------------------ bounds
MaxConcurrency == 2
MaxDepthChoice == 3
SmallUrlCap == 2
MaxElapsed == 1
NumDomains == 2

\* ------------------------------------------------------- program constants
DefaultMaxUrlsToCrawl == 100
maxTimeoutErrors == 10
maxNetworkErrors == 8
maxBlockedCount == 5
maxRetries == 2
maxLaunchRetries == 3
DefaultRequestDelay == 1000
MillisPerSecond == 1000

\* The catalog site has one page more than the largest halt threshold, so that
\* every threshold is reached with an item still queued
CatalogSize == maxTimeoutErrors + 1

\* --------------------------------------------------------------- URL tokens
ShopOrigin == "https://shop.example.com"
ShopOriginUpper == "HTTPS://Shop.Example.COM"
OtherOrigin == "https://other.example.net"
Origins == {ShopOrigin, ShopOriginUpper, OtherOrigin}
Unparsable == <<"http://[">>

\* String.prototype.toLowerCase on one token
LowerToken(tok) ==
  CASE tok = ShopOriginUpper -> ShopOrigin
    [] tok = "About" -> "about"
    [] tok = "Product" -> "product"
    [] OTHER -> tok

\* The hostname the WHATWG parser gives an origin token (hosts are lower-cased)
HostOfOrigin(tok) ==
  IF tok = OtherOrigin THEN "other.example.net" ELSE "shop.example.com"

\* The origin as URL.toString() serialises it (scheme and host lower-cased)
SerialOrigin(tok) ==
  IF tok = OtherOrigin THEN OtherOrigin ELSE ShopOrigin

\* new URL(url) succeeds
CanParse(url) == Len(url) >= 1 /\ url[1] \in Origins

\* new URL(url).pathname : an empty path is "/"
PathOf(url) == IF Len(url) = 1 THEN <<"/">> ELSE Tail(url)

\* new URL(url).toString()
Href(url) == <<SerialOrigin(url[1])>> \o PathOf(url)

\* new URL(url).hostname
Hostname(url) == HostOfOrigin(url[1])

ToLowerCase(s) == [i \in 1..Len(s) |-> LowerToken(s[i])]

StripTrailingSlash(s) ==
  IF Len(s) >= 1 /\ s[Len(s)] = "/" THEN SubSeq(s, 1, Len(s) - 1) ELSE s

normalizeUrl(url) ==
  IF CanParse(url) THEN StripTrailingSlash(ToLowerCase(Href(url))) ELSE url

\* Mutant: the hostnames are not compared
isSameDomain_AnyHost(url, baseDomain) == CanParse(url) /\ CanParse(baseDomain)

isSameDomain(url, baseDomain) ==
  /\ CanParse(url)
  /\ CanParse(baseDomain)
  /\ Hostname(url) = Hostname(baseDomain)

\* The directory of a path: everything up to and including its last "/"
RECURSIVE DirOf(_)
DirOf(path) ==
  IF path = <<>> \/ path[Len(path)] = "/" THEN path
  ELSE DirOf(SubSeq(path, 1, Len(path) - 1))

\* new URL(relativeUrl, baseUrl) succeeds
CanResolve(relativeUrl, baseUrl) ==
  /\ relativeUrl # Unparsable
  /\ relativeUrl # <<>>
  /\ CanParse(relativeUrl) \/ CanParse(baseUrl)

\* new URL(relativeUrl, baseUrl).toString()
Resolved(relativeUrl, baseUrl) ==
  IF CanParse(relativeUrl) THEN Href(relativeUrl)
  ELSE IF relativeUrl[1] = "/" THEN <<SerialOrigin(baseUrl[1])>> \o relativeUrl
  ELSE <<SerialOrigin(baseUrl[1])>> \o DirOf(PathOf(baseUrl)) \o relativeUrl

resolveUrl(relativeUrl, baseUrl) ==
  IF CanResolve(relativeUrl, baseUrl) THEN Resolved(relativeUrl, baseUrl)
  ELSE relativeUrl

\* The generic product vocabulary, matched against the lower-cased path
ProductVocabulary == {"product", "item", "pd", "details", "buy"}

\* commonProductUrlPatterns: the segments s of the patterns /s/
PatternSegments == {"product", "products", "item", "p", "pd", "shop"}

isLikelyProductUrl(url) ==
  \E i \in 1..(Len(url) - 2) :
    url[i] = "/" /\ url[i + 1] \in PatternSegments /\ url[i + 2] = "/"

isProductUrl(url) ==
  /\ CanParse(url)
  /\ \/ \E i \in 1..Len(PathOf(url)) :
          LowerToken(PathOf(url)[i]) \in ProductVocabulary
     \/ isLikelyProductUrl(PathOf(url))

\* ------------------------------------------------------------- error messages
ErrTimeout == "Navigation timeout of 30000 ms exceeded"
ErrNetwork == "net::ERR_CONNECTION_RESET at https://shop.example.com"
ErrBlocked == "Request blocked: 429 forbidden"
ErrOther == "Protocol error (Page.navigate): Target closed"
ErrNetTimeout == "net::ERR_ABORTED at https://shop.example.com/timeout"
ErrorMessages == {ErrTimeout, ErrNetwork, ErrBlocked, ErrOther, ErrNetTimeout}
NoError == "null"

\* startTime, endTime: Date | null = null
NoTime == -1

\* error.message?.includes(marker)
Includes(message, marker) ==
  CASE marker = "timeout" -> message \in {ErrTimeout, ErrNetTimeout}
    [] marker = "net::" -> message \in {ErrNetwork, ErrNetTimeout}
    [] marker \in {"blocked", "forbidden", "429"} -> message = ErrBlocked
    [] OTHER -> FALSE

\* ---------------------------------------------------------------- the sites
Seed == <<ShopOrigin, "/">>
Sites == {"shop", "catalog", "endless", "mesh"}

CatalogLink(k) == <<"/", "c", ToString(k)>>

\* What the page at a canonical URL links to, for each site
ShopLinks(page) ==
  CASE page = <<ShopOrigin>> ->
         << <<"/", "product", "/", "abc-123">>, <<"/", "about">> >>
    [] page = <<ShopOrigin, "/", "product", "/", "abc-123">> ->
         << <<"/">>,
            <<ShopOriginUpper, "/", "About", "/">>,
            <<OtherOrigin, "/", "product", "/", "deal">>,
            Unparsable,
            <<"reviews">> >>
    [] page = <<ShopOrigin, "/", "about">> ->
         << <<"/", "Product", "/", "abc-123", "/">>,
            <<"/", "about", "/", "/">>,
            <<"team">>,
            <<"team">> >>
    [] page = <<ShopOrigin, "/", "team">> ->
         << <<"/", "team", "/", "lead">>, <<OtherOrigin>> >>
    [] OTHER -> << >>

CatalogLinks(page) ==
  IF page = <<ShopOrigin>>
    THEN [k \in 1..CatalogSize |-> CatalogLink(k)]
    ELSE << <<"/">> >>

EndlessLinks(page) == << Tail(page) \o <<"/", "next">> >>

\* A site where the hub page is two links from the root through m3 and three
\* links through m1 and its deep page
MeshLinks(page) ==
  CASE page = <<ShopOrigin>> ->
         << <<"/", "m1">>, <<"/", "m2">>, <<"/", "m3">> >>
    [] page = <<ShopOrigin, "/", "m1">> -> << <<"/", "m1", "/", "deep">> >>
    [] page = <<ShopOrigin, "/", "m1", "/", "deep">> -> << <<"/", "hub">> >>
    [] page = <<ShopOrigin, "/", "m3">> -> << <<"/", "hub">>, <<"/", "side">> >>
    [] page = <<ShopOrigin, "/", "hub">> -> << <<"/", "hub", "/", "leaf">> >>
    [] OTHER -> << >>

RawLinks(s, url) ==
  LET page == normalizeUrl(url) IN
  CASE s = "shop" -> ShopLinks(page)
    [] s = "catalog" -> CatalogLinks(page)
    [] s = "mesh" -> MeshLinks(page)
    [] OTHER -> EndlessLinks(page)

\* ------------------------------------------------------------------- state
VARIABLES
  site,            \* the web site behind the fetch adapter
  domain,          \* BaseCrawler.domain
  config,          \* BaseCrawler.config
  maxUrlsToCrawl,  \* BaseCrawler.maxUrlsToCrawl
  visitedUrls,     \* BaseCrawler.visitedUrls
  productUrls,     \* BaseCrawler.productUrls
  urlQueue,        \* BaseCrawler.urlQueue
  browser,         \* BaseCrawler.browser: "null" or "open"
  crawlState,      \* BaseCrawler.crawlState
  pc,              \* position of start()/processQueue()
  launchRetry,     \* retryCount of initializeBrowser
  tasks,           \* the promises of the current batch (delay: the backoff
                   \* timer a waiting task has set, in milliseconds)
  loopExit,        \* how the while loop of processQueue ended
  results,         \* the CrawlResults saveResults has produced
  startOutcome,    \* "pending", "returned" or "rejected"
  startTime,       \* BaseCrawler.startTime: NoTime or clock ticks
  endTime,         \* BaseCrawler.endTime: NoTime or clock ticks
  openPages,       \* the pages of browser.newPage() not yet closed
  fetchFailed,     \* history: a call of fetchLinks has failed
  mainPc,          \* main(): "off" (start() is called directly), "await"
                   \* (runCrawlerForDomain awaits crawler.start()), "finished"
  domainIndex,     \* main(): the position in domains of the domain crawled
  productFiles,    \* per domain: <<>> or <<the array written to its file>>
  crawlLog,        \* history: how runCrawlerForDomain ended for each domain
  dispatched,      \* history: the items handed to processUrl
  skipped          \* history: dequeued items dropped as already visited

vars == <<site, domain, config, maxUrlsToCrawl, visitedUrls, productUrls,
          urlQueue, browser, crawlState, pc, launchRetry, tasks, loopExit,
          results, startOutcome, startTime, endTime, openPages, fetchFailed,
          mainPc, domainIndex, productFiles, crawlLog, dispatched, skipped>>

mainVars == <<mainPc, domainIndex, productFiles, crawlLog>>

Configs ==
  [concurrency : 1..MaxConcurrency,
   maxDepth : 0..MaxDepthChoice,
   requestDelay : {0, DefaultRequestDelay},
   useHeadlessBrowser : BOOLEAN]

UrlCaps == (1..SmallUrlCap) \cup {DefaultMaxUrlsToCrawl}

Init ==
  /\ site \in Sites
  /\ domain = Seed
  /\ config \in Configs
  \* the catalog's pages are at most two links deep and its crawl does not
  \* depend on the pause: one pause and the depths up to 2 cover it
  /\ site = "catalog" =>
       (config.maxDepth <= 2 /\ config.requestDelay = DefaultRequestDelay)
  /\ maxUrlsToCrawl \in UrlCaps
  /\ visitedUrls = {}
  /\ productUrls = {}
  /\ urlQueue = <<>>
  /\ browser = "null"
  /\ crawlState = [lastError |-> NoError, blockedCount |-> 0,
                   networkErrors |-> 0, timeoutErrors |-> 0]
  /\ pc = "idle"
  /\ launchRetry = 0
  /\ tasks = <<>>
  /\ loopExit = "none"
  /\ results = <<>>
  /\ startOutcome = "pending"
  /\ startTime = NoTime
  /\ endTime = NoTime
  /\ openPages = 0
  /\ fetchFailed = FALSE
  /\ mainPc = "off"
  /\ domainIndex = 0
  /\ productFiles = <<>>
  /\ crawlLog = <<>>
  /\ dispatched = <<>>
  /\ skipped = 0

\* ------------------------------------------------------- helpers of the code
\* Mutant: the cap is not tested
LoopContinues_NoCap(queue, visited) == Len(queue) > 0

\* Mutant: the cap is tested with <= instead of <
LoopContinues_OffByOne(queue, visited) ==
  Len(queue) > 0 /\ Cardinality(visited) <= maxUrlsToCrawl

\* processQueue: the while condition
LoopContinues(queue, visited) ==
  Len(queue) > 0 /\ Cardinality(visited) < maxUrlsToCrawl

\* Mutant: the timeout threshold is not checked
shouldStopCrawling_NoTimeouts(state) ==
  \/ state.networkErrors >= maxNetworkErrors
  \/ state.blockedCount >= maxBlockedCount

\* Mutant: any recorded failure stops the crawl
shouldStopCrawling_AnyError(state) == state.lastError # NoError

\* Mutant: the thresholds are tested with > instead of >=
shouldStopCrawling_Strict(state) ==
  \/ state.networkErrors > maxNetworkErrors
  \/ state.timeoutErrors > maxTimeoutErrors
  \/ state.blockedCount > maxBlockedCount

shouldStopCrawling(state) ==
  \/ state.networkErrors >= maxNetworkErrors
  \/ state.timeoutErrors >= maxTimeoutErrors
  \/ state.blockedCount >= maxBlockedCount

\* Mutant: every failure is retried
shouldRetry_AnyError(error, retryCount) == retryCount < maxRetries

shouldRetry(error, retryCount) ==
  Includes(error, "timeout") /\ retryCount < maxRetries

\* Mutant: the depth is tested with > instead of >=
ReachedMaxDepth_OffByOne(depth) == depth > config.maxDepth

\* processUrl: the depth check before the fetch
ReachedMaxDepth(depth) == depth >= config.maxDepth

\* Mutant: the URL is not added to the visited set
MarkVisited_Forget(visited, normalizedUrl) == visited

\* processQueue: this.visitedUrls.add(normalizedUrl)
MarkVisited(visited, normalizedUrl) == visited \cup {normalizedUrl}

\* Mutant: the wait is one second before every retry
BackoffDelay_Constant(retryCount) == MillisPerSecond

\* processUrl: const delay = Math.pow(2, retryCount) * 1000
BackoffDelay(retryCount) == (2 ^ retryCount) * MillisPerSecond

\* Mutant: the retry passes retryCount on unchanged
NextRetryCount_Stuck(retryCount) == retryCount

\* processUrl: the recursive call's retryCount argument
NextRetryCount(retryCount) == retryCount + 1

\* Mutant: a child is put two levels below its parent
ChildDepth_Skip(depth) == depth + 2

\* processLinks: the depth of an enqueued child
ChildDepth(depth) == depth + 1

\* Mutant: a failure adds two to its counter
handleCrawlError_CountsTwice(state, error) ==
  LET s == [state EXCEPT !.lastError = error] IN
  IF Includes(error, "timeout")
    THEN [s EXCEPT !.timeoutErrors = @ + 2]
  ELSE IF Includes(error, "net::")
    THEN [s EXCEPT !.networkErrors = @ + 2]
  ELSE IF Includes(error, "blocked") \/ Includes(error, "forbidden")
          \/ Includes(error, "429")
    THEN [s EXCEPT !.blockedCount = @ + 2]
  ELSE s

\* Mutant: the net:: marker is tested before the timeout marker
handleCrawlError_NetFirst(state, error) ==
  LET s == [state EXCEPT !.lastError = error] IN
  IF Includes(error, "net::")
    THEN [s EXCEPT !.networkErrors = @ + 1]
  ELSE IF Includes(error, "timeout")
    THEN [s EXCEPT !.timeoutErrors = @ + 1]
  ELSE IF Includes(error, "blocked") \/ Includes(error, "forbidden")
          \/ Includes(error, "429")
    THEN [s EXCEPT !.blockedCount = @ + 1]
  ELSE s

handleCrawlError(state, error) ==
  LET s == [state EXCEPT !.lastError = error] IN
  IF Includes(error, "timeout")
    THEN [s EXCEPT !.timeoutErrors = @ + 1]
  ELSE IF Includes(error, "net::")
    THEN [s EXCEPT !.networkErrors = @ + 1]
  ELSE IF Includes(error, "blocked") \/ Includes(error, "forbidden")
          \/ Includes(error, "429")
    THEN [s EXCEPT !.blockedCount = @ + 1]
  ELSE s

\* Mutant: the visited set is not consulted when a child is pushed
processLinks_NoVisitedTest(links, sourceUrl, depth, queue, visited) ==
  LET Passes(link) == isSameDomain(resolveUrl(link, sourceUrl), domain)
      kept == SelectSeq(links, Passes)
  IN  queue \o [i \in 1..Len(kept) |->
                  [url |-> normalizeUrl(resolveUrl(kept[i], sourceUrl)),
                   depth |-> ChildDepth(depth)]]

\* Mutant: the children are put at the head of the queue
processLinks_Unshift(links, sourceUrl, depth, queue, visited) ==
  LET Passes(link) ==
        /\ isSameDomain(resolveUrl(link, sourceUrl), domain)
        /\ normalizeUrl(resolveUrl(link, sourceUrl)) \notin visited
      kept == SelectSeq(links, Passes)
  IN  [i \in 1..Len(kept) |->
         [url |-> normalizeUrl(resolveUrl(kept[i], sourceUrl)),
          depth |-> ChildDepth(depth)]] \o queue

\* processLinks: the for loop.  The visited set does not change while it runs,
\* so the children pushed are the links that pass both tests, in link order.
processLinks(links, sourceUrl, depth, queue, visited) ==
  LET Passes(link) ==
        /\ isSameDomain(resolveUrl(link, sourceUrl), domain)
        /\ normalizeUrl(resolveUrl(link, sourceUrl)) \notin visited
      kept == SelectSeq(links, Passes)
  IN  queue \o [i \in 1..Len(kept) |->
                  [url |-> normalizeUrl(resolveUrl(kept[i], sourceUrl)),
                   depth |-> ChildDepth(depth)]]

\* fetchLinksWithBrowser: the Set of page.evaluate keeps the first copy of each
\* link; links.map gives new URL(link, url).toString() or null, and the filter
\* drops the nulls
ProcessedLinks(links, url) ==
  LET indexed == [i \in 1..Len(links) |-> [at |-> i, link |-> links[i]]]
      FirstCopy(e) == \A j \in 1..(e.at - 1) : links[j] # e.link
      unique == SelectSeq(indexed, FirstCopy)
      mapped == [i \in 1..Len(unique) |->
                   IF CanResolve(unique[i].link, url)
                     THEN Resolved(unique[i].link, url)
                     ELSE <<>>]
      NotNull(link) == link # <<>>
  IN  SelectSeq(mapped, NotNull)

\* The links a successful fetchLinks(url) returns
fetchLinks(url) ==
  IF config.useHeadlessBrowser
    THEN ProcessedLinks(RawLinks(site, url), url)
    ELSE RawLinks(site, url)

\* Mutant: the plain HTTP fetcher lets its failure through
CaughtInAdapter_Rethrown(cfg) == FALSE

\* fetchLinksWithAxios: the catch block logs the failure and returns []
CaughtInAdapter(cfg) == ~cfg.useHeadlessBrowser

\* fetchLinksWithBrowser: a task that starts a fetch has called browser.newPage()
OpensPage(task) == config.useHeadlessBrowser /\ task.state = "fetching"

PagesOpened(started) ==
  Cardinality({i \in 1..Len(started) : OpensPage(started[i])})

\* fetchLinksWithBrowser: await page.close() before return processedLinks
PageAfterSuccess(pages) == IF config.useHeadlessBrowser THEN pages - 1 ELSE pages

\* Mutant: the catch block rethrows without closing the page
PageAfterError_Leak(pages) == pages

\* fetchLinksWithBrowser: catch: if (page) await page.close()
PageAfterError(pages) == IF config.useHeadlessBrowser THEN pages - 1 ELSE pages

\* A promise of the batch that has resolved: nothing of the call is left
Settled(item) ==
  [item |-> item, retryCount |-> 0, error |-> NoError, delay |-> 0,
   state |-> "settled"]

\* processUrl up to its first suspension: classification, depth check and the
\* start of the fetch (fetchLinksWithBrowser returns [] when there is no browser)
StartTask(item, retryCount) ==
  IF ReachedMaxDepth(item.depth) THEN Settled(item)
  ELSE IF config.useHeadlessBrowser /\ browser = "null" THEN Settled(item)
  ELSE [item |-> item, retryCount |-> retryCount, error |-> NoError,
        delay |-> 0, state |-> "fetching"]

\* Mutant: every URL is recorded as a product URL
Classified_All(products, url) == products \cup {url}

\* Mutant: a product URL is not recorded
Classified_Never(products, url) == products

Classified(products, url) ==
  IF isProductUrl(url) THEN products \cup {url} ELSE products

\* Mutant: the depth check comes first, so an item at maxDepth is not classified
ClassifiedInProcessUrl_DepthFirst(products, item) ==
  IF ReachedMaxDepth(item.depth) THEN products
  ELSE Classified(products, item.url)

\* processUrl: the classification is the first statement, before the depth check
ClassifiedInProcessUrl(products, item) == Classified(products, item.url)

\* processQueue: the for loop over the batch
RECURSIVE DispatchBatch(_, _)
DispatchBatch(batch, acc) ==
  IF batch = <<>> THEN acc
  ELSE
    LET item == Head(batch)
        normalizedUrl == normalizeUrl(item.url)
    IN  IF normalizedUrl \in acc.visited
          THEN DispatchBatch(Tail(batch), [acc EXCEPT !.skipped = @ + 1])
        ELSE DispatchBatch(Tail(batch),
               [acc EXCEPT !.visited = MarkVisited(@, normalizedUrl),
                           !.products = ClassifiedInProcessUrl(@, item),
                           !.tasks = Append(@, StartTask(item, 0)),
                           !.dispatched = Append(@, item)])

\* Mutant: the whole queue is spliced
Min_TakeAll(a, b) == b

Min(a, b) == IF a < b THEN a ELSE b

\* Mutant: the batch is joined as soon as one promise has settled
AllSettled_Race(promises) ==
  \E i \in 1..Len(promises) : promises[i].state = "settled"

\* Mutant: the batch is abandoned as soon as a counter is at its threshold
AllSettled_OrHalted(promises) ==
  \/ \A i \in 1..Len(promises) : promises[i].state = "settled"
  \/ shouldStopCrawling(crawlState)

\* Promise.all(promises) resolves: every promise has settled (none rejects)
AllSettled(promises) ==
  \A i \in 1..Len(promises) : promises[i].state = "settled"

\* Mutant: the pause follows every batch
PauseAfterBatch_Always(queue) == TRUE

\* processQueue: the condition of the politeness delay after Promise.all
PauseAfterBatch(queue) == Len(queue) > 0 /\ config.requestDelay > 0

\* ----------------------------------------------------------------- actions
\* start(): stamp startTime (the origin of the run's clock), seed the queue,
\* then initializeBrowser or processQueue
Start ==
  /\ pc = "idle"
  /\ urlQueue' = Append(urlQueue, [url |-> domain, depth |-> 0])
  /\ pc' = IF config.useHeadlessBrowser THEN "launch" ELSE "loop"
  /\ startTime' = 0
  /\ UNCHANGED <<mainVars, fetchFailed, openPages, endTime, site, domain, config, maxUrlsToCrawl, visitedUrls, productUrls,
                 browser, crawlState, launchRetry, tasks, loopExit, results,
                 startOutcome, dispatched, skipped>>

\* initializeBrowser: puppeteer.launch succeeds; the local retryCount is gone
\* when initializeBrowser returns
LaunchOk ==
  /\ pc = "launch"
  /\ browser' = "open"
  /\ launchRetry' = 0
  /\ pc' = "loop"
  /\ UNCHANGED <<mainVars, fetchFailed, openPages, startTime, endTime, site, domain, config, maxUrlsToCrawl, visitedUrls, productUrls,
                 urlQueue, crawlState, tasks, loopExit, results,
                 startOutcome, dispatched, skipped>>

\* initializeBrowser: puppeteer.launch fails; the third failure is rethrown
LaunchFail ==
  /\ pc = "launch"
  /\ launchRetry' = launchRetry + 1
  /\ pc' = IF launchRetry' = maxLaunchRetries THEN "throwing" ELSE "launch"
  /\ UNCHANGED <<mainVars, fetchFailed, openPages, startTime, endTime, site, domain, config, maxUrlsToCrawl, visitedUrls, productUrls,
                 urlQueue, browser, crawlState, tasks, loopExit, results,
                 startOutcome, dispatched, skipped>>

\* processQueue: the while condition is false
LoopEnd ==
  /\ pc = "loop"
  /\ ~LoopContinues(urlQueue, visitedUrls)
  /\ loopExit' = "Completed"
  /\ pc' = "save"
  /\ UNCHANGED <<mainVars, fetchFailed, openPages, startTime, endTime, site, domain, config, maxUrlsToCrawl, visitedUrls, productUrls,
                 urlQueue, browser, crawlState, launchRetry, tasks, results,
                 startOutcome, dispatched, skipped>>

\* processQueue: shouldStopCrawling breaks the loop
Halt ==
  /\ pc = "loop"
  /\ LoopContinues(urlQueue, visitedUrls)
  /\ shouldStopCrawling(crawlState)
  /\ loopExit' = "Aborted"
  /\ pc' = "save"
  /\ UNCHANGED <<mainVars, fetchFailed, openPages, startTime, endTime, site, domain, config, maxUrlsToCrawl, visitedUrls, productUrls,
                 urlQueue, browser, crawlState, launchRetry, tasks, results,
                 startOutcome, dispatched, skipped>>

\* processQueue: splice a batch, mark and dispatch its items
TakeBatch ==
  /\ pc = "loop"
  /\ LoopContinues(urlQueue, visitedUrls)
  /\ ~shouldStopCrawling(crawlState)
  /\ LET n == Min(config.concurrency, Len(urlQueue))
         out == DispatchBatch(SubSeq(urlQueue, 1, n),
                  [visited |-> visitedUrls, products |-> productUrls,
                   tasks |-> <<>>, dispatched |-> dispatched,
                   skipped |-> skipped])
     IN  /\ urlQueue' = SubSeq(urlQueue, n + 1, Len(urlQueue))
         /\ visitedUrls' = out.visited
         /\ productUrls' = out.products
         /\ tasks' = out.tasks
         /\ dispatched' = out.dispatched
         /\ skipped' = out.skipped
         /\ openPages' = openPages + PagesOpened(out.tasks)
  /\ pc' = "batch"
  /\ UNCHANGED <<mainVars, fetchFailed, startTime, endTime, site, domain, config, maxUrlsToCrawl, browser, crawlState,
                 launchRetry, loopExit, results, startOutcome>>

\* processUrl: fetchLinks resolves, processLinks enqueues the children
FetchSucceed(i) ==
  /\ pc = "batch"
  /\ tasks[i].state = "fetching"
  /\ \E item \in {tasks[i].item} :
       \E links \in {fetchLinks(item.url)} :
         urlQueue' = processLinks(links, item.url, item.depth,
                                  urlQueue, visitedUrls)
  /\ tasks' = [tasks EXCEPT ![i] = Settled(tasks[i].item)]
  /\ openPages' = PageAfterSuccess(openPages)
  /\ UNCHANGED <<mainVars, fetchFailed, startTime, endTime, site, domain, config, maxUrlsToCrawl, visitedUrls, productUrls,
                 browser, crawlState, pc, launchRetry, loopExit, results,
                 startOutcome, dispatched, skipped>>

\* The fetch fails.  fetchLinksWithAxios turns the failure into []; the error of
\* fetchLinksWithBrowser is retried by processUrl after the backoff, or thrown
\* to the catch of processQueue, which calls handleCrawlError.
FetchFail(i, error) ==
  /\ pc = "batch"
  /\ tasks[i].state = "fetching"
  /\ IF CaughtInAdapter(config)
       THEN /\ tasks' = [tasks EXCEPT ![i] = Settled(tasks[i].item)]
            /\ UNCHANGED crawlState
     ELSE IF shouldRetry(error, tasks[i].retryCount)
       THEN /\ tasks' = [tasks EXCEPT
                           ![i].state = "backoff",
                           ![i].error = error,
                           ![i].delay = BackoffDelay(tasks[i].retryCount)]
            /\ UNCHANGED crawlState
     ELSE /\ tasks' = [tasks EXCEPT ![i] = Settled(tasks[i].item)]
          /\ crawlState' = handleCrawlError(crawlState, error)
  /\ openPages' = PageAfterError(openPages)
  /\ fetchFailed' = TRUE
  /\ UNCHANGED <<mainVars, startTime, endTime, site, domain, config, maxUrlsToCrawl, visitedUrls, productUrls,
                 urlQueue, browser, pc, launchRetry, loopExit, results,
                 startOutcome, dispatched, skipped>>

\* processUrl: the backoff timer fires and processUrl(item, retryCount + 1) runs
Retry(i) ==
  /\ pc = "batch"
  /\ tasks[i].state = "backoff"
  /\ tasks' = [tasks EXCEPT
                 ![i] = StartTask(tasks[i].item, NextRetryCount(tasks[i].retryCount))]
  /\ productUrls' = ClassifiedInProcessUrl(productUrls, tasks[i].item)
  /\ openPages' = openPages + PagesOpened(<<tasks'[i]>>)
  /\ UNCHANGED <<mainVars, fetchFailed, startTime, endTime, site, domain, config, maxUrlsToCrawl, visitedUrls, urlQueue,
                 browser, crawlState, pc, launchRetry, loopExit, results,
                 startOutcome, dispatched, skipped>>

\* processQueue: Promise.all resolves; the politeness delay follows when the
\* queue is not empty
Join ==
  /\ pc = "batch"
  /\ AllSettled(tasks)
  /\ tasks' = <<>>
  /\ pc' = IF PauseAfterBatch(urlQueue) THEN "delay" ELSE "loop"
  /\ UNCHANGED <<mainVars, fetchFailed, openPages, startTime, endTime, site, domain, config, maxUrlsToCrawl, visitedUrls, productUrls,
                 urlQueue, browser, crawlState, launchRetry, loopExit, results,
                 startOutcome, dispatched, skipped>>

DelayElapsed ==
  /\ pc = "delay"
  /\ pc' = "loop"
  /\ UNCHANGED <<mainVars, fetchFailed, openPages, startTime, endTime, site, domain, config, maxUrlsToCrawl, visitedUrls, productUrls,
                 urlQueue, browser, crawlState, launchRetry, tasks, loopExit,
                 results, startOutcome, dispatched, skipped>>

\* saveResults: the CrawlResult built from the fields, endTime just stamped
saveResults(now) ==
  [domain |-> domain,
   productUrls |-> productUrls,
   totalUrlsCrawled |-> Cardinality(visitedUrls),
   startTime |-> startTime,
   endTime |-> now,
   duration |-> now - startTime,
   crawlState |-> crawlState]

\* start(): return this.saveResults(), some ticks after startTime
SaveResults ==
  /\ pc = "save"
  /\ \E now \in startTime..(startTime + MaxElapsed) :
       /\ endTime' = now
       /\ results' = Append(results, saveResults(now))
  /\ pc' = "returning"
  /\ UNCHANGED <<mainVars, fetchFailed, openPages, startTime, site, domain, config, maxUrlsToCrawl, visitedUrls,
                 productUrls, urlQueue, browser, crawlState, launchRetry, tasks,
                 loopExit, startOutcome, dispatched, skipped>>

\* saveResults throws after stamping endTime (existsSync, mkdirSync or
\* writeFileSync fails): start() leaves its try block with the exception
SaveFail ==
  /\ pc = "save"
  /\ \E now \in startTime..(startTime + MaxElapsed) : endTime' = now
  /\ pc' = "throwing"
  /\ UNCHANGED <<mainVars, fetchFailed, openPages, startTime, site, domain, config, maxUrlsToCrawl,
                 visitedUrls, productUrls, urlQueue, browser, crawlState,
                 launchRetry, tasks, loopExit, results, startOutcome, dispatched,
                 skipped>>

\* start(): the finally block closes the browser, then start() settles
Finally ==
  /\ pc \in {"returning", "throwing"}
  /\ browser' = "null"
  /\ startOutcome' = IF pc = "returning" THEN "returned" ELSE "rejected"
  /\ pc' = "done"
  /\ UNCHANGED <<mainVars, fetchFailed, openPages, startTime, endTime, site, domain, config, maxUrlsToCrawl, visitedUrls, productUrls,
                 urlQueue, crawlState, launchRetry, tasks, loopExit, results,
                 dispatched, skipped>>

Next ==
  \/ Start
  \/ LaunchOk
  \/ LaunchFail
  \/ LoopEnd
  \/ Halt
  \/ TakeBatch
  \/ \E i \in 1..Len(tasks), error \in ErrorMessages : FetchFail(i, error)
  \/ \E i \in 1..Len(tasks) : FetchSucceed(i)
  \/ \E i \in 1..Len(tasks) : Retry(i)
  \/ Join
  \/ DelayElapsed
  \/ SaveResults
  \/ SaveFail
  \/ Finally

Spec == Init /\ [][Next]_vars

\* ------------------------------------------------------------ the entry point
\* The web sites behind the configured domains.  Every seed is written with the
\* same origin token; a domain is told from the others by its position in
\* domains, and so is its product-URL file (the real hostnames are distinct).
MainSites == {"shop", "catalog"}

\* The site of the domain at a position of the list: the catalog can be the
\* first domain, crawled one page at a time and two links deep, as in Init
DomainSites(cfg, index) ==
  {s \in MainSites :
     s = "catalog" => (index = 1 /\ cfg.maxDepth <= 2 /\ cfg.concurrency = 1)}

\* defaultConfig, which every crawler of main() gets, within the bounds
MainConfigs ==
  {cfg \in Configs :
     cfg.useHeadlessBrowser /\ cfg.requestDelay = DefaultRequestDelay}

\* main() has entered its loop and runCrawlerForDomain has constructed the
\* crawler of the first domain
MainInit ==
  /\ config \in MainConfigs
  /\ site \in DomainSites(config, 1)
  /\ domain = Seed
  /\ maxUrlsToCrawl = DefaultMaxUrlsToCrawl
  /\ visitedUrls = {}
  /\ productUrls = {}
  /\ urlQueue = <<>>
  /\ browser = "null"
  /\ crawlState = [lastError |-> NoError, blockedCount |-> 0,
                   networkErrors |-> 0, timeoutErrors |-> 0]
  /\ pc = "idle"
  /\ launchRetry = 0
  /\ tasks = <<>>
  /\ loopExit = "none"
  /\ results = <<>>
  /\ startOutcome = "pending"
  /\ startTime = NoTime
  /\ endTime = NoTime
  /\ openPages = 0
  /\ fetchFailed = FALSE
  /\ mainPc = "await"
  /\ domainIndex = 1
  /\ productFiles = [k \in 1..NumDomains |-> <<>>]
  /\ crawlLog = <<>>
  /\ dispatched = <<>>
  /\ skipped = 0

\* Mutant: a rejected start() is not caught and ends main()
MainAfter_Uncaught(outcome, index) ==
  IF outcome = "rejected" THEN "finished"
  ELSE IF index < NumDomains THEN "await" ELSE "finished"

\* main(): runCrawlerForDomain resolves whatever happened inside its try block,
\* and the for loop goes on to the next domain, if there is one
MainAfter(outcome, index) == IF index < NumDomains THEN "await" ELSE "finished"

\* main(): the next iteration calls runCrawlerForDomain, which constructs a new
\* BaseCrawler (every field from its initialiser) with defaultConfig
NextDomain(outcome) ==
  /\ crawlLog' = Append(crawlLog, outcome)
  /\ mainPc' = MainAfter(outcome, domainIndex)
  /\ IF mainPc' = "await"
       THEN /\ domainIndex' = domainIndex + 1
            /\ site' \in DomainSites(config, domainIndex')
            /\ domain' = Seed
            /\ maxUrlsToCrawl' = DefaultMaxUrlsToCrawl
            /\ visitedUrls' = {}
            /\ productUrls' = {}
            /\ urlQueue' = <<>>
            /\ browser' = "null"
            /\ crawlState' = [lastError |-> NoError, blockedCount |-> 0,
                              networkErrors |-> 0, timeoutErrors |-> 0]
            /\ pc' = "idle"
            /\ launchRetry' = 0
            /\ tasks' = <<>>
            /\ loopExit' = "none"
            /\ results' = <<>>
            /\ startOutcome' = "pending"
            /\ startTime' = NoTime
            /\ endTime' = NoTime
            /\ openPages' = 0
            /\ fetchFailed' = FALSE
            /\ dispatched' = <<>>
            /\ skipped' = 0
       ELSE UNCHANGED <<domainIndex, site, domain, maxUrlsToCrawl, visitedUrls,
                        productUrls, urlQueue, browser, crawlState, pc,
                        launchRetry, tasks, loopExit, results, startOutcome,
                        startTime, endTime, openPages, fetchFailed, dispatched,
                        skipped>>
  /\ UNCHANGED config

\* runCrawlerForDomain: start() has returned its result and the product URLs
\* are written to the domain's file
SaveProductUrls ==
  /\ mainPc = "await"
  /\ pc = "done"
  /\ startOutcome = "returned"
  /\ productFiles' = [productFiles EXCEPT ![domainIndex] = <<results[1].productUrls>>]
  /\ NextDomain("saved")

\* runCrawlerForDomain: start() has returned its result and fs.writeFileSync
\* throws; the catch block logs the error
SaveProductUrlsFail ==
  /\ mainPc = "await"
  /\ pc = "done"
  /\ startOutcome = "returned"
  /\ UNCHANGED productFiles
  /\ NextDomain("unwritten")

\* runCrawlerForDomain: start() has rejected; the catch block logs the error
CrawlFailed ==
  /\ mainPc = "await"
  /\ pc = "done"
  /\ startOutcome = "rejected"
  /\ UNCHANGED productFiles
  /\ NextDomain("rejected")

MainNext ==
  \/ Next
  \/ SaveProductUrls
  \/ SaveProductUrlsFail
  \/ CrawlFailed

MainSpec == MainInit /\ [][MainNext]_vars

\* The runs checked for termination: the shop (a finite link graph) and the
\* endless site (an unbounded one) under every configuration, the catalogue,
\* where the error counters reach their thresholds, crawled one page at a time,
\* and the mesh crawled with the plain HTTP fetcher.
LiveInit ==
  /\ Init
  /\ site = "catalog" => config.concurrency = 1
  /\ site = "mesh" => ~config.useHeadlessBrowser

\* Every fetch, backoff timer and delay ends: a step that can be taken is taken.
FairSpec == LiveInit /\ [][Next]_vars /\ WF_vars(Next)

\* ------------------------------------------------------------------ claims
Items(seq) == {seq[i] : i \in 1..Len(seq)}
InFlight == {tasks[i].item : i \in 1..Len(tasks)}
ProductPage == <<ShopOrigin, "/", "product", "/", "abc-123">>
ReviewsPage == <<ShopOrigin, "/", "product", "/", "reviews">>
SeedHost == "shop.example.com"

\* C1: no canonical URL is handed to processUrl twice in one run, and a URL is
\* in the visited set from the moment its task exists.
C1_NoDuplicateDispatch ==
  /\ Cardinality({normalizeUrl(dispatched[i].url) : i \in 1..Len(dispatched)})
       = Len(dispatched)
  /\ \A item \in Items(dispatched) \cup InFlight :
       normalizeUrl(item.url) \in visitedUrls

\* A duplicate has been dropped at dispatch and another copy, not in canonical
\* form, still waits in the queue.
C1_Witness ==
  /\ skipped >= 1
  /\ \E i \in 1..Len(urlQueue) :
       /\ urlQueue[i].url # normalizeUrl(urlQueue[i].url)
       /\ normalizeUrl(urlQueue[i].url) \in visitedUrls

\* saveResults threw: endTime is stamped and no CrawlResult was produced
SaveThrew == endTime # NoTime /\ results = <<>>

\* C2: once the loop of processQueue runs, it ends as Completed or Aborted and
\* start() returns (it rejects only when saveResults threw while writing).
C2_LoopTerminates ==
  (pc = "loop") ~>
     (pc = "done" /\ loopExit \in {"Completed", "Aborted"}
                  /\ (startOutcome = "returned" \/ SaveThrew))

\* The endless site: the run ended at the URL cap with a child still queued.
C2_Witness ==
  /\ site = "endless"
  /\ pc = "done"
  /\ loopExit = "Completed"
  /\ Len(urlQueue) > 0
  /\ Cardinality(visitedUrls) >= maxUrlsToCrawl

\* C3: every queued, in-flight or dispatched item has 0 <= depth <= maxDepth.
C3_DepthBound ==
  \A item \in Items(urlQueue) \cup Items(dispatched) \cup InFlight :
    0 <= item.depth /\ item.depth <= config.maxDepth

\* An item at depth maxDepth > 0 has been dispatched.
C3_Witness ==
  /\ config.maxDepth > 0
  /\ \E item \in Items(dispatched) : item.depth = config.maxDepth

ThresholdReached ==
  \/ crawlState.networkErrors >= maxNetworkErrors
  \/ crawlState.timeoutErrors >= maxTimeoutErrors
  \/ crawlState.blockedCount >= maxBlockedCount

\* C4: with a counter at its threshold no step dequeues or dispatches, and the
\* step taken at the loop head leaves the loop with the queue as it is, as
\* Aborted when the while condition still holds.
C4_HaltBeforeBatch ==
  [][ThresholdReached =>
       /\ dispatched' = dispatched
       /\ visitedUrls' = visitedUrls
       /\ pc = "loop" =>
            /\ pc' = "save"
            /\ urlQueue' = urlQueue
            /\ (Len(urlQueue) > 0 /\ Cardinality(visitedUrls) < maxUrlsToCrawl)
                 => loopExit' = "Aborted"]_vars

\* The loop was left through the halt check on the timeout counter.
C4_Witness ==
  /\ loopExit = "Aborted"
  /\ crawlState.timeoutErrors >= maxTimeoutErrors
  /\ Len(urlQueue) > 0

ZeroState ==
  [lastError |-> NoError, blockedCount |-> 0, networkErrors |-> 0,
   timeoutErrors |-> 0]
TimeoutClassified(error) == handleCrawlError(ZeroState, error).timeoutErrors = 1

\* C5: a task waits for a retry only after a Timeout-classified failure and
\* only when fewer than 2 retries were made, so an item has at most 3 attempts;
\* the failure that ends an item leaves the queue alone and the batch running.
C5_RetryPolicy ==
  /\ [](\A i \in 1..Len(tasks) :
          /\ tasks[i].retryCount <= 2
          /\ tasks[i].state = "backoff" =>
               TimeoutClassified(tasks[i].error) /\ tasks[i].retryCount < 2)
  /\ [][\A i \in 1..Len(tasks) :
          (/\ pc = "batch"
           /\ tasks[i].state = "fetching"
           /\ tasks'[i] # tasks[i]
           /\ crawlState' # crawlState)
          => /\ tasks'[i].state = "settled"
             /\ urlQueue' = urlQueue
             /\ pc' = "batch"]_vars

\* An item was given up after its timeouts and the crawl went on: the loop is
\* at its head with more items queued.
C5_Witness ==
  /\ crawlState.timeoutErrors >= 1
  /\ crawlState.lastError = ErrTimeout
  /\ pc = "loop"
  /\ Len(urlQueue) > 0

\* C6: when the seed's fetch succeeds on its third attempt (its children are
\* enqueued), timeoutErrors is 2.
C6_TimeoutsCounted ==
  [][(/\ pc = "batch"
      /\ Len(dispatched) = 1
      /\ tasks[1].state = "fetching"
      /\ tasks[1].retryCount = 2
      /\ Len(urlQueue') > Len(urlQueue))
     => crawlState'.timeoutErrors = 2]_vars

OnlyBlockedAfterSeed ==
  /\ crawlState.networkErrors = 0
  /\ crawlState.timeoutErrors = 0
  /\ crawlState.blockedCount = Len(dispatched) - 1

\* C7 as stated: a run in which every item after the seed was Blocked is
\* Aborted with blockedCount exactly 5.
C7_ExactlyFiveBlocked ==
  (loopExit = "Aborted" /\ OnlyBlockedAfterSeed)
    => crawlState.blockedCount = maxBlockedCount

\* C7 as amended: blockedCount never passes 5 + concurrency - 1; a loop that
\* ended with 5 or more blocks, items queued and the cap not reached ended as
\* Aborted; a run Aborted on blocks alone has between 5 and 5 + concurrency - 1.
C7_AbortWithinOneBatch ==
  /\ crawlState.blockedCount <= maxBlockedCount + config.concurrency - 1
  /\ (/\ loopExit # "none"
      /\ crawlState.blockedCount >= maxBlockedCount
      /\ Len(urlQueue) > 0
      /\ Cardinality(visitedUrls) < maxUrlsToCrawl)
     => loopExit = "Aborted"
  /\ (/\ loopExit = "Aborted"
      /\ crawlState.networkErrors < maxNetworkErrors
      /\ crawlState.timeoutErrors < maxTimeoutErrors)
     => crawlState.blockedCount >= maxBlockedCount

\* Two items at a time, every item after the seed Blocked: Aborted with 6.
C7_Witness ==
  /\ loopExit = "Aborted"
  /\ OnlyBlockedAfterSeed
  /\ config.concurrency = 2
  /\ crawlState.blockedCount = maxBlockedCount + 1
  /\ Len(urlQueue) > 0

\* The run of scenario 1 has returned: the shop site, maxDepth 1, the cap of
\* the code, and the root's two links were returned and followed.
Scenario1Done ==
  /\ site = "shop"
  /\ config.maxDepth = 1
  /\ maxUrlsToCrawl = DefaultMaxUrlsToCrawl
  /\ startOutcome = "returned"
  /\ Len(dispatched) > 1

\* C8 as stated: one product URL and totalUrlsCrawled = 2.
C8_TwoUrlsCrawled ==
  Scenario1Done =>
    /\ results[1].productUrls = {ProductPage}
    /\ results[1].totalUrlsCrawled = 2

\* C8 as amended: one product URL and totalUrlsCrawled = 3 (the seed and both
\* links are marked visited).
C8_ThreeUrlsCrawled ==
  Scenario1Done =>
    /\ Len(results) = 1
    /\ results[1].productUrls = {ProductPage}
    /\ results[1].totalUrlsCrawled = 3

C8_Witness == Scenario1Done /\ results[1].totalUrlsCrawled = 3

\* C9: with maxUrlsToCrawl = 1 only the seed is ever visited, dispatched or
\* fetched, and totalUrlsCrawled is 1.
C9_CapOfOne ==
  maxUrlsToCrawl = 1 =>
    /\ visitedUrls \subseteq {normalizeUrl(Seed)}
    /\ \A item \in Items(dispatched) \cup InFlight : item.url = Seed
    /\ Len(dispatched) <= 1
    /\ \A i \in 1..Len(results) : results[i].totalUrlsCrawled = 1

\* The run has returned with the seed's children still in the queue.
C9_Witness ==
  /\ maxUrlsToCrawl = 1
  /\ config.maxDepth > 0
  /\ startOutcome = "returned"
  /\ Len(urlQueue) > 0

\* C10: every URL in the queue and in the visited set parses and has the
\* seed's hostname.
C10_SameHostOnly ==
  /\ \A item \in Items(urlQueue) :
       CanParse(item.url) /\ HostOfOrigin(item.url[1]) = SeedHost
  /\ \A url \in visitedUrls :
       CanParse(url) /\ HostOfOrigin(url[1]) = SeedHost

\* The product page's links (a foreign one and an unparsable one among them)
\* have been processed: its last link is queued or dispatched.
C10_Witness ==
  \E item \in Items(urlQueue) \cup Items(dispatched) : item.url = ReviewsPage

\* C11: when start() has settled, saveResults has run exactly once, whether the
\* loop completed, was aborted, or an exception ended the run.
C11_SavedOnEveryExit == pc = "done" => Len(results) = 1

WellFormed(result) ==
  /\ result.domain = domain
  /\ result.productUrls = productUrls
  /\ result.totalUrlsCrawled = Cardinality(visitedUrls)
  /\ result.startTime \in Nat
  /\ result.endTime \in Nat
  /\ result.duration = result.endTime - result.startTime
  /\ result.duration >= 0
  /\ result.crawlState = crawlState

C13_ResourcesReleased ==
  /\ pc = "done" => (browser = "null" /\ openPages = 0)
  /\ browser = "open" =>
       /\ config.useHeadlessBrowser
       /\ pc \in {"loop", "batch", "delay", "save", "returning", "throwing"}
  /\ openPages = PagesOpened(tasks)
  /\ pc # "batch" => openPages = 0

\* start() rejected because saveResults threw, after a crawl with the browser in
\* which a fetch failed and another succeeded.
C13_Witness ==
  /\ pc = "done"
  /\ startOutcome = "rejected"
  /\ SaveThrew
  /\ config.useHeadlessBrowser
  /\ crawlState.lastError # NoError
  /\ Len(dispatched) > 1

LastDispatched(n) == SubSeq(dispatched, Len(dispatched) - n + 1, Len(dispatched))

\* C14: the tasks that exist are those of the latest batch, in dispatch order,
\* and their items are marked visited; no task exists outside a batch; a batch
\* is left only when every task of it has settled; items are dequeued only at
\* the loop head with no task left, every item dispatched so far marked
\* visited, and the tasks created are those of the items just dispatched.
C14_BatchesSequential ==
  /\ [](/\ Len(tasks) <= Len(dispatched)
        /\ [i \in 1..Len(tasks) |-> tasks[i].item] = LastDispatched(Len(tasks))
        /\ \A i \in 1..Len(tasks) : normalizeUrl(tasks[i].item.url) \in visitedUrls
        /\ pc # "batch" => tasks = <<>>)
  /\ [][/\ (pc = "batch" /\ pc' # "batch")
             => \A i \in 1..Len(tasks) : tasks[i].state = "settled"
        /\ Len(urlQueue') < Len(urlQueue)
             => /\ pc = "loop"
                /\ tasks = <<>>
                /\ \A i \in 1..Len(dispatched) :
                     normalizeUrl(dispatched[i].url) \in visitedUrls
                /\ Len(dispatched') - Len(dispatched) = Len(tasks')
                /\ \A i \in 1..Len(dispatched') :
                     normalizeUrl(dispatched'[i].url) \in visitedUrls'
        /\ dispatched' # dispatched => Len(urlQueue') < Len(urlQueue)]_vars

\* A second batch of two tasks is running, one of them after a retry, while
\* items of a later batch wait in the queue.
C14_Witness ==
  /\ pc = "batch"
  /\ Len(tasks) = 2
  /\ Len(dispatched) > Len(tasks)
  /\ Len(urlQueue) > 0
  /\ \E i \in 1..Len(tasks) : tasks[i].retryCount > 0

SharedState == <<visitedUrls, urlQueue, crawlState, productUrls>>

\* The step is the end of one task's fetch: one task goes from fetching to
\* settled, the others stay as they are.
OneFetchEnds ==
  /\ pc = "batch"
  /\ Len(tasks') = Len(tasks)
  /\ \E i \in 1..Len(tasks) :
       /\ tasks[i].state = "fetching"
       /\ tasks'[i].state = "settled"
       /\ \A j \in 1..Len(tasks) : j # i => tasks'[j] = tasks[j]

\* C15 as stated: inside a batch, the visited set, the queue, the counters and
\* the product set do not change in a step that leaves a task of the batch in
\* flight.
C15_OnlyAtJoinPoints ==
  [][(pc = "batch" /\ SharedState' # SharedState)
       => \A j \in 1..Len(tasks') : tasks'[j].state = "settled"]_vars

\* C15 as amended: the visited set and the product set change only at the loop
\* head (the dispatch loop); the queue changes at the start, at the loop head,
\* or when one task's fetch ends, which only appends to it and leaves the
\* counters alone; the counters change only when one task's fetch ends, which
\* leaves the queue alone.
C15_MutatedByOneTaskAtATime ==
  [][/\ visitedUrls' # visitedUrls => pc = "loop"
     /\ productUrls' # productUrls => pc = "loop"
     /\ urlQueue' # urlQueue =>
          \/ pc \in {"idle", "loop"}
          \/ /\ OneFetchEnds
             /\ Len(urlQueue') > Len(urlQueue)
             /\ SubSeq(urlQueue', 1, Len(urlQueue)) = urlQueue
             /\ crawlState' = crawlState
     /\ crawlState' # crawlState => (OneFetchEnds /\ urlQueue' = urlQueue)]_vars

\* In the second batch the second task has failed and was counted while the
\* first task's fetch is still in flight, with children of the first batch
\* queued.
C15_Witness ==
  /\ pc = "batch"
  /\ Len(dispatched) = 3
  /\ Len(tasks) = 2
  /\ tasks[1].state = "fetching"
  /\ tasks[1].retryCount = 0
  /\ tasks[2].state = "settled"
  /\ crawlState.blockedCount = 1
  /\ Len(urlQueue) > 0

\* C16: a batch holds at most concurrency tasks, for pairwise different
\* canonical URLs; the fetches in flight and the open pages are at most one per
\* task, so at most concurrency.
C16_BoundedParallelism ==
  /\ Len(tasks) <= config.concurrency
  /\ Cardinality({normalizeUrl(tasks[i].item.url) : i \in 1..Len(tasks)})
       = Len(tasks)
  /\ Cardinality({i \in 1..Len(tasks) : tasks[i].state = "fetching"})
       <= config.concurrency
  /\ openPages <= Len(tasks)
  /\ openPages <= config.concurrency

\* Two fetches in flight with concurrency 2, one of them a retry, and more
\* items waiting in the queue than a batch holds.
C16_Witness ==
  /\ config.concurrency = 2
  /\ openPages = 2
  /\ \E i \in 1..Len(tasks) : tasks[i].retryCount > 0
  /\ Len(urlQueue) > config.concurrency

\* C17: with a counter at its threshold while a batch runs, the loop is not
\* left, the batch is left only when every task has settled, no task is removed
\* and a settled task stays settled, and a task still running takes its usual
\* steps (its fetch ends, or its backoff ends and it fetches again); the loop is
\* marked Aborted only at the loop head, with no task left.
C17_NoMidBatchCancellation ==
  [][/\ (pc = "batch" /\ ThresholdReached) =>
          /\ loopExit' = "none"
          /\ pc' \in {"batch", "loop", "delay"}
          /\ pc' # "batch" =>
               \A i \in 1..Len(tasks) : tasks[i].state = "settled"
          /\ pc' = "batch" =>
               /\ Len(tasks') = Len(tasks)
               /\ \A i \in 1..Len(tasks) :
                    \/ tasks'[i] = tasks[i]
                    \/ /\ tasks[i].state = "fetching"
                       /\ tasks'[i].state \in {"settled", "backoff"}
                    \/ /\ tasks[i].state = "backoff"
                       /\ tasks'[i].state = "fetching"
                       /\ tasks'[i].retryCount = tasks[i].retryCount + 1
     /\ (loopExit = "none" /\ loopExit' = "Aborted") =>
          (pc = "loop" /\ tasks = <<>> /\ ThresholdReached)]_vars

\* The fifth block was counted in the running batch, and after it a task of the
\* same batch was retried, timed out for good and was counted as well.
C17_Witness ==
  /\ pc = "batch"
  /\ crawlState.blockedCount = maxBlockedCount
  /\ crawlState.timeoutErrors >= 1
  /\ crawlState.lastError = ErrTimeout
  /\ loopExit = "none"

ResultFields ==
  {"domain", "productUrls", "totalUrlsCrawled", "startTime", "endTime",
   "duration", "crawlState"}

\* C18: a loop that ended as Aborted ended with fewer visited URLs than
\* maxUrlsToCrawl, a non-empty queue and a counter at its threshold, and the
\* CrawlResult of the run says so; every CrawlResult has the same fields.
C18_AbortedShape ==
  /\ loopExit = "Aborted" =>
       /\ Cardinality(visitedUrls) < maxUrlsToCrawl
       /\ Len(urlQueue) > 0
       /\ ThresholdReached
       /\ \A i \in 1..Len(results) :
            /\ results[i].totalUrlsCrawled < maxUrlsToCrawl
            /\ \/ results[i].crawlState.networkErrors >= maxNetworkErrors
               \/ results[i].crawlState.timeoutErrors >= maxTimeoutErrors
               \/ results[i].crawlState.blockedCount >= maxBlockedCount
  /\ \A i \in 1..Len(results) : DOMAIN results[i] = ResultFields

\* A run aborted on network errors has returned its CrawlResult.
C18_Witness ==
  /\ loopExit = "Aborted"
  /\ startOutcome = "returned"
  /\ Len(results) = 1
  /\ results[1].crawlState.networkErrors >= maxNetworkErrors

DispatchedProducts ==
  {dispatched[i].url : i \in {j \in 1..Len(dispatched) : isProductUrl(dispatched[j].url)}}

\* C19: the product set, and the productUrls of every CrawlResult, hold only
\* URLs of dispatched items that isProductUrl accepts (and all of them), and
\* totalUrlsCrawled is the size of the visited set.
C19_ProductsWereDispatched ==
  /\ productUrls = DispatchedProducts
  /\ \A i \in 1..Len(results) :
       /\ results[i].productUrls \subseteq DispatchedProducts
       /\ results[i].productUrls = productUrls
       /\ results[i].totalUrlsCrawled = Cardinality(visitedUrls)

\* A run over the shop has returned one product URL among at least four
\* visited URLs.
C19_Witness ==
  /\ startOutcome = "returned"
  /\ Len(results) = 1
  /\ results[1].productUrls = {ProductPage}
  /\ results[1].totalUrlsCrawled >= 4

\* C20: every dispatched item, whatever its depth, is in the visited set and,
\* when isProductUrl accepts its URL, in the product set; a task fetches or
\* waits for a retry only for an item with depth < maxDepth; the tasks a
\* dispatch creates fetch exactly when their item has depth < maxDepth, their
\* URLs being classified in the same step.
C20_ClassifiedBeforeDepthCheck ==
  /\ [](/\ \A item \in Items(dispatched) :
             /\ normalizeUrl(item.url) \in visitedUrls
             /\ isProductUrl(item.url) => item.url \in productUrls
        /\ \A i \in 1..Len(tasks) :
             tasks[i].state \in {"fetching", "backoff"}
               => tasks[i].item.depth < config.maxDepth)
  /\ [][dispatched' # dispatched =>
          \A i \in 1..Len(tasks') :
            /\ tasks'[i].state =
                 IF tasks'[i].item.depth >= config.maxDepth THEN "settled"
                 ELSE "fetching"
            /\ isProductUrl(tasks'[i].item.url)
                 => tasks'[i].item.url \in productUrls']_vars

\* The product page was dispatched at depth maxDepth: it is recorded as a
\* product and visited, and its task has settled without a fetch.
C20_Witness ==
  /\ pc = "batch"
  /\ ProductPage \in productUrls
  /\ normalizeUrl(ProductPage) \in visitedUrls
  /\ \E i \in 1..Len(tasks) :
       /\ tasks[i].item.url = ProductPage
       /\ tasks[i].item.depth = config.maxDepth
       /\ tasks[i].state = "settled"
  /\ openPages = 0
  /\ crawlState.lastError = NoError
  /\ Len(dispatched) = 2

\* C21: normalizeUrl is idempotent on the URLs the crawl normalises: the URL of
\* every child in the queue is an output of normalizeUrl, and normalising it
\* again (the key computed when it is dequeued) gives the same URL.
C21_NormalizeIdempotent ==
  \A i \in 1..Len(urlQueue) :
    urlQueue[i].depth > 0 => normalizeUrl(urlQueue[i].url) = urlQueue[i].url

\* The class of a failure, by the precedence timeout, net::, blocked
ErrorKind(error) ==
  IF error \in {ErrTimeout, ErrNetTimeout} THEN "Timeout"
  ELSE IF error = ErrNetwork THEN "Network"
  ELSE IF error = ErrBlocked THEN "Blocked"
  ELSE "Other"

Plus(kind, wanted) == IF kind = wanted THEN 1 ELSE 0

C23_OnePausePerBatch ==
  /\ [](pc = "delay" =>
          /\ tasks = <<>>
          /\ Len(urlQueue) > 0
          /\ config.requestDelay > 0)
  /\ [][/\ (pc = "batch" /\ pc' # "batch") =>
             /\ \A i \in 1..Len(tasks) : tasks[i].state = "settled"
             /\ pc' = IF Len(urlQueue) > 0 /\ config.requestDelay > 0
                        THEN "delay" ELSE "loop"
             /\ urlQueue' = urlQueue
        /\ (pc # "delay" /\ pc' = "delay") => pc = "batch"
        /\ (pc = "delay" /\ pc' # "delay") =>
             (pc' = "loop" /\ urlQueue' = urlQueue /\ dispatched' = dispatched)
        /\ dispatched' # dispatched => pc = "loop"]_vars

\* With requestDelay 0 a batch of two was joined with items left in the queue
\* and the loop is back at its head without a pause.
C23_Witness ==
  /\ config.requestDelay = 0
  /\ pc = "loop"
  /\ Len(dispatched) = 3
  /\ config.concurrency = 2
  /\ Len(urlQueue) > 0

NonDecreasingDepth(seq) ==
  \A i \in 1..(Len(seq) - 1) : seq[i].depth <= seq[i + 1].depth

RECURSIVE IsSubSeq(_, _)
IsSubSeq(a, b) ==
  IF a = <<>> THEN TRUE
  ELSE IF b = <<>> THEN FALSE
  ELSE IF Head(a) = Head(b) THEN IsSubSeq(Tail(a), Tail(b))
  ELSE IsSubSeq(a, Tail(b))

\* C24 as stated: for any concurrency, an item dequeued and dispatched before
\* another has a depth less than or equal to the other's.
C24_BreadthFirst == NonDecreasingDepth(dispatched)

\* C24 as amended: the queue is first in, first out (a dequeue removes
\* min(concurrency, length) items from the head and dispatches them in queue
\* order, the rest keeps its order; every other change appends, at the tail,
\* children one level below the item whose fetch ended), and when items are
\* crawled one at a time the depths in the queue and in the dispatch order
\* never decrease.
C24_FifoAndSerialBreadthFirst ==
  /\ [](config.concurrency = 1 =>
          /\ NonDecreasingDepth(dispatched)
          /\ NonDecreasingDepth(urlQueue)
          /\ \A i \in 1..Len(dispatched), j \in 1..Len(urlQueue) :
               dispatched[i].depth <= urlQueue[j].depth)
  /\ [][/\ Len(urlQueue') < Len(urlQueue) =>
             LET n == IF config.concurrency < Len(urlQueue)
                        THEN config.concurrency ELSE Len(urlQueue)
             IN  /\ urlQueue' = SubSeq(urlQueue, n + 1, Len(urlQueue))
                 /\ SubSeq(dispatched', 1, Len(dispatched)) = dispatched
                 /\ IsSubSeq(SubSeq(dispatched', Len(dispatched) + 1,
                                    Len(dispatched')),
                             SubSeq(urlQueue, 1, n))
        /\ (Len(urlQueue') > Len(urlQueue) /\ pc # "idle") =>
             /\ SubSeq(urlQueue', 1, Len(urlQueue)) = urlQueue
             /\ \E i \in 1..Len(tasks) :
                  /\ tasks[i].state = "fetching"
                  /\ tasks'[i].state = "settled"
                  /\ \A j \in (Len(urlQueue) + 1)..Len(urlQueue') :
                       urlQueue'[j].depth = tasks[i].item.depth + 1
        /\ Len(urlQueue') = Len(urlQueue) => urlQueue' = urlQueue]_vars

\* The mesh was crawled one page at a time down to its leaf, three links from
\* the root.
C24_Witness ==
  /\ site = "mesh"
  /\ config.concurrency = 1
  /\ \E i \in 1..Len(dispatched) : dispatched[i].depth = 3
  /\ Len(dispatched) >= 7

C26_ExponentialBackoff ==
  /\ [](\A i \in 1..Len(tasks) :
          IF tasks[i].state = "backoff"
            THEN /\ tasks[i].retryCount \in {0, 1}
                 /\ tasks[i].delay = IF tasks[i].retryCount = 0 THEN 1000 ELSE 2000
                 /\ ErrorKind(tasks[i].error) = "Timeout"
            ELSE tasks[i].delay = 0)
  /\ [][\A i \in 1..Len(tasks) :
          (/\ pc = "batch"
           /\ tasks[i].state = "fetching"
           /\ tasks[i].retryCount = 2
           /\ tasks'[i] # tasks[i])
          => (pc' = "batch" /\ tasks'[i].state = "settled")]_vars

\* The second retry of an item is pending: its timer is set to two seconds.
C26_Witness ==
  \E i \in 1..Len(tasks) :
    /\ tasks[i].state = "backoff"
    /\ tasks[i].retryCount = 1
    /\ tasks[i].delay = 2000

\* The canonical URLs of the same-domain links on the page with canonical URL k
LinkedFrom(k) ==
  LET links == RawLinks(site, k) IN
  {normalizeUrl(normalizeUrl(resolveUrl(links[i], k))) :
     i \in {j \in 1..Len(links) : isSameDomain(resolveUrl(links[j], k), domain)}}

\* The canonical URLs at most d links from the seed
RECURSIVE Within(_)
Within(d) ==
  IF d = 0 THEN {normalizeUrl(Seed)}
  ELSE LET near == Within(d - 1)
       IN  near \cup UNION {LinkedFrom(k) : k \in near}

\* The shortest link distance from the seed of a URL in Within(maxDepth)
Distance(k) ==
  CHOOSE d \in 0..config.maxDepth :
    k \in Within(d) /\ (d = 0 \/ k \notin Within(d - 1))

\* The loop has completed in a run without a failed fetch, below the URL cap
CleanRun ==
  /\ loopExit = "Completed"
  /\ ~fetchFailed
  /\ Cardinality(visitedUrls) < maxUrlsToCrawl

AllWithinDepthVisited ==
  /\ Within(config.maxDepth) \subseteq visitedUrls
  /\ \A i \in 1..Len(dispatched) :
       /\ normalizeUrl(dispatched[i].url) \in Within(config.maxDepth)
       /\ dispatched[i].depth = Distance(normalizeUrl(dispatched[i].url))

\* C27 as stated: for any concurrency, a clean run has visited every URL at
\* most maxDepth links from the seed and has dispatched every URL at the depth
\* of its shortest link distance.
C27_AllWithinDepthVisited == CleanRun => AllWithinDepthVisited

\* C27 as amended: that holds when items are crawled one at a time or maxDepth
\* is at most 2; for any concurrency, a clean run has visited only URLs at most
\* maxDepth links from the seed, each dispatched at a depth between its
\* shortest distance and maxDepth, and has visited every link of every page
\* dispatched above maxDepth.
C27_VisitedWithinDepth ==
  CleanRun =>
    /\ (config.concurrency = 1 \/ config.maxDepth <= 2) => AllWithinDepthVisited
    /\ visitedUrls \subseteq Within(config.maxDepth)
    /\ \A i \in 1..Len(dispatched) :
         /\ normalizeUrl(dispatched[i].url) \in visitedUrls
         /\ normalizeUrl(dispatched[i].url) \in Within(config.maxDepth)
         /\ dispatched[i].depth >= Distance(normalizeUrl(dispatched[i].url))
         /\ dispatched[i].depth <= config.maxDepth
         /\ dispatched[i].depth < config.maxDepth =>
              LinkedFrom(normalizeUrl(dispatched[i].url)) \subseteq visitedUrls

MeshLeaf == <<ShopOrigin, "/", "hub", "/", "leaf">>

\* A clean run over the mesh, two items at a time with maxDepth 2, has visited
\* the hub, two links from the root, and not the leaf, three links from it.
C27_Witness ==
  /\ CleanRun
  /\ site = "mesh"
  /\ config.concurrency = 2
  /\ config.maxDepth = 2
  /\ <<ShopOrigin, "/", "hub">> \in visitedUrls
  /\ MeshLeaf \notin visitedUrls
  /\ pc = "done"

\* C28: the visited set never holds more than maxUrlsToCrawl + concurrency - 1
\* URLs, items are dequeued only while it holds fewer than maxUrlsToCrawl, and
\* a loop that finds it at the cap ends without dequeuing.
C28_OvershootBelowOneBatch ==
  /\ [](Cardinality(visitedUrls) <= maxUrlsToCrawl + config.concurrency - 1)
  /\ [][/\ (Len(urlQueue') < Len(urlQueue) \/ visitedUrls' # visitedUrls) =>
             /\ Cardinality(visitedUrls) < maxUrlsToCrawl
             /\ Cardinality(visitedUrls') - Cardinality(visitedUrls)
                  <= config.concurrency
        /\ (pc = "loop" /\ Cardinality(visitedUrls) >= maxUrlsToCrawl) =>
             (pc' = "save" /\ loopExit' = "Completed" /\ urlQueue' = urlQueue)]_vars

\* With a cap of 2 and two items at a time the second batch took the visited
\* set from 1 to 3, and the loop ended there with items still queued.
C28_Witness ==
  /\ maxUrlsToCrawl = 2
  /\ config.concurrency = 2
  /\ Cardinality(visitedUrls) = maxUrlsToCrawl + config.concurrency - 1
  /\ loopExit = "Completed"
  /\ Len(urlQueue) > 0

Unsettled == {i \in 1..Len(tasks) : tasks[i].state # "settled"}

\* C29: each counter stays at or below its threshold plus concurrency - 1 and
\* never decreases; the failures counted are at most the dispatched items
\* whose task has ended; and no item is dispatched with a counter at its
\* threshold.
C29_CountersBounded ==
  /\ [](/\ crawlState.timeoutErrors <= maxTimeoutErrors + config.concurrency - 1
        /\ crawlState.networkErrors <= maxNetworkErrors + config.concurrency - 1
        /\ crawlState.blockedCount <= maxBlockedCount + config.concurrency - 1
        /\ crawlState.timeoutErrors + crawlState.networkErrors
             + crawlState.blockedCount
             <= Len(dispatched) - Cardinality(Unsettled))
  /\ [][/\ crawlState'.timeoutErrors >= crawlState.timeoutErrors
        /\ crawlState'.networkErrors >= crawlState.networkErrors
        /\ crawlState'.blockedCount >= crawlState.blockedCount
        /\ dispatched' # dispatched =>
             /\ crawlState.timeoutErrors < maxTimeoutErrors
             /\ crawlState.networkErrors < maxNetworkErrors
             /\ crawlState.blockedCount < maxBlockedCount
             /\ crawlState' = crawlState]_vars

\* Two items at a time: the batch that began with 7 network errors ended with
\* 9, one more than the threshold.
C29_Witness ==
  /\ config.concurrency = 2
  /\ crawlState.networkErrors = maxNetworkErrors + 1
  /\ crawlState.timeoutErrors = 0
  /\ crawlState.blockedCount = 0
  /\ pc = "batch"

\* C30: with the plain HTTP fetcher lastError and the counters keep their
\* initial values, no task waits for a retry or is in a second attempt, and the
\* loop never ends as Aborted; the step of a failed fetch settles its task with
\* the queue, the counters and the batch as they were, like a fetch that found
\* no link.
C30_AxiosFailureIsEmptyPage ==
  /\ [](~config.useHeadlessBrowser =>
          /\ crawlState = ZeroState
          /\ loopExit # "Aborted"
          /\ \A i \in 1..Len(tasks) :
               tasks[i].state # "backoff" /\ tasks[i].retryCount = 0
          /\ \A i \in 1..Len(results) : results[i].crawlState = ZeroState)
  /\ [][(~config.useHeadlessBrowser /\ ~fetchFailed /\ fetchFailed') =>
          /\ pc = "batch"
          /\ pc' = "batch"
          /\ urlQueue' = urlQueue
          /\ crawlState' = crawlState
          /\ visitedUrls' = visitedUrls
          /\ \E i \in 1..Len(tasks) :
               /\ tasks[i].state = "fetching"
               /\ tasks' = [tasks EXCEPT ![i] = Settled(tasks[i].item)]]_vars

\* The catalog was crawled with the plain HTTP fetcher, fetches failed, and the
\* run completed with every page dispatched and the counters at zero.
C30_Witness ==
  /\ ~config.useHeadlessBrowser
  /\ site = "catalog"
  /\ fetchFailed
  /\ startOutcome = "returned"
  /\ loopExit = "Completed"
  /\ Len(dispatched) = CatalogSize + 1
  /\ results[1].crawlState = ZeroState

\* Every field of the crawler has the value of its initialiser
FreshCrawler ==
  /\ visitedUrls = {}
  /\ productUrls = {}
  /\ urlQueue = <<>>
  /\ crawlState = ZeroState
  /\ browser = "null"
  /\ tasks = <<>>
  /\ results = <<>>
  /\ dispatched = <<>>
  /\ startTime = NoTime
  /\ endTime = NoTime

\* C31: main() crawls the domains in list order, one at a time: the log holds
\* the domains before the current one, and all of them when main() has ended,
\* whatever their outcomes; a crawler that has not started has every field at
\* its initial value; a domain has a product-URL file exactly when its start()
\* returned and the file was written.  The step to the next domain is taken
\* only when start() has settled with nothing left running, also after a
\* rejection, and it begins the next domain with a fresh crawler; a file is
\* written only in that step, for the current domain, from the result start()
\* returned.
C31_DomainsCrawledInTurn ==
  /\ [](/\ mainPc \in {"await", "finished"}
        /\ domainIndex \in 1..NumDomains
        /\ Len(crawlLog) = IF mainPc = "await" THEN domainIndex - 1 ELSE NumDomains
        /\ pc = "idle" => (mainPc = "await" /\ FreshCrawler)
        /\ \A k \in 1..NumDomains :
             productFiles[k] # <<>> <=> (k <= Len(crawlLog) /\ crawlLog[k] = "saved"))
  /\ [][/\ crawlLog' # crawlLog =>
             /\ mainPc = "await"
             /\ pc = "done"
             /\ startOutcome \in {"returned", "rejected"}
             /\ \A i \in 1..Len(tasks) : tasks[i].state = "settled"
             /\ openPages = 0
             /\ browser = "null"
             /\ Len(crawlLog') = Len(crawlLog) + 1
             /\ SubSeq(crawlLog', 1, Len(crawlLog)) = crawlLog
             /\ crawlLog'[domainIndex] = "rejected" <=> startOutcome = "rejected"
             /\ IF domainIndex < NumDomains
                  THEN /\ mainPc' = "await"
                       /\ domainIndex' = domainIndex + 1
                       /\ pc' = "idle"
                       /\ FreshCrawler'
                  ELSE mainPc' = "finished"
        /\ productFiles' # productFiles =>
             /\ pc = "done"
             /\ startOutcome = "returned"
             /\ Len(results) = 1
             /\ crawlLog' # crawlLog
             /\ productFiles' = [productFiles EXCEPT
                                   ![domainIndex] = <<results[1].productUrls>>]
        /\ (domainIndex' # domainIndex \/ mainPc' # mainPc) => crawlLog' # crawlLog
        /\ crawlLog' = crawlLog => (mainPc = "await" /\ config' = config)]_vars

\* main() has ended: the first domain's start() rejected, so that it has no
\* file; the second domain was crawled after it, three pages or more were
\* visited, and its product URL is in its file.
C31_Witness ==
  /\ mainPc = "finished"
  /\ crawlLog = <<"rejected", "saved">>
  /\ productFiles[1] = <<>>
  /\ productFiles[2] = << {ProductPage} >>
  /\ Cardinality(visitedUrls) >= 3

====
